---- MODULE Spec2Model ----
(***************************************************************************)
(* Attendance reconciliation (src/main.py): column normalisation           *)
(* (standardize_column_names, process_dataframe), the comparison of the    *)
(* submitted sheet with the backend export (compare_attendance) and the    *)
(* batch loops around process_attendance_file, and the scheduler thread    *)
(* that removes the saved uploads and the written reports.                 *)
(*                                                                         *)
(* A DataFrame is a record [index, columns, data]: index is the sequence   *)
(* of row labels, columns the sequence of column labels, data[i] the row   *)
(* i as a sequence of cells aligned with columns.  Labels and cells are    *)
(* strings; TLC cannot take a string apart, so the pandas parsers and      *)
(* formatters are tables over the labels of the model.                     *)
(***************************************************************************)
EXTENDS Integers, Sequences, FiniteSets, TLC

VARIABLES
    pc,              \* where the run stands
    df,              \* the raw table handed to process_dataframe
    processed,       \* process_dataframe(df)
    reprocessed,     \* process_dataframe applied to its own result
    backend_data,    \* load_backend_data's result
    new_attendance,  \* load_new_attendance's result
    report,          \* compare_attendance's result
    mode,            \* "web" (process_and_return) or "folder" (main, --folder)
    files,           \* the batch: the uploaded files, or os.listdir(input_folder)
    cursor,          \* the position of the batch loop
    results,         \* one (report_path, message) per file handled
    used_ids,        \* the unique ids generated so far
    disk,            \* the saved uploads and the written reports, in order
    jobs,            \* the deletions registered with the scheduler
    removed,         \* the paths os.remove has taken off the disk
    due,             \* the registered jobs whose interval has elapsed
    last,            \* per job, how its latest firing in this interval ended
    alive            \* the scheduler thread is in its while True loop

normVars == <<df, processed, reprocessed>>

runVars == <<backend_data, new_attendance, report>>

batchVars == <<mode, files, cursor, results, used_ids, disk, jobs>>

schedVars == <<removed, due, last, alive>>

vars == <<pc, normVars, runVars, batchVars, schedVars>>

-----------------------------------------------------------------------------
(* Values *)

\* A missing cell as the loader yields it (float NaN / null); pd.isna is true of it.
NaN == "<NaN>"

\* What .at returns when the row label or the column label is not unique.
NonScalar == "<Series>"

\* A header that is neither a str nor a datetime (a number read from a sheet).
IntHeader == "<int 7>"

\* A header that is a native datetime (an Excel date cell) for 2024-01-01.
TimestampHeader == "<Timestamp 2024-01-01>"

\* No date: the parse raised ValueError.
NoDate == "<ValueError>"

Range(s) == {s[i] : i \in DOMAIN s}

Count(x, s) == Cardinality({i \in DOMAIN s : s[i] = x})

NoDuplicates(s) == \A i, j \in DOMAIN s : s[i] = s[j] => i = j

-----------------------------------------------------------------------------
(* Header tests and the date parsers/formatters, as tables.  A date is     *)
(* named by its ISO form.                                                  *)

\* isinstance(col, str)
IsStr(col) == col \notin {IntHeader, TimestampHeader}

\* 'code' in col.lower()
ContainsCode(col) == col \in {"Emp Code", "Employee Code", "Dept Code"}

\* 'name' in col.lower()
ContainsName(col) == col \in {"Emp Name", "Employee Name", "Manager Name"}

\* pd.to_datetime(col, format='%d-%m-%Y', errors='raise')
ParseDMY(col) ==
    CASE col = "01-01-2024" -> "2024-01-01"
      [] col = "02-01-2024" -> "2024-01-02"
      [] OTHER -> NoDate

\* pd.to_datetime(col, format='%d-%b-%y')
ParseDBY(col) ==
    CASE col = "01-Jan-24" -> "2024-01-01"
      [] col = "02-Jan-24" -> "2024-01-02"
      [] OTHER -> NoDate

\* date.strftime('Status (%d-%b-%y)')
StrftimeStatus(date) ==
    CASE date = "2024-01-01" -> "Status (01-Jan-24)"
      [] date = "2024-01-02" -> "Status (02-Jan-24)"

\* col.startswith('Status'); a non-str label has no startswith.
StartsWithStatus(col) ==
    col \in {"Status (01-Jan-24)", "Status (02-Jan-24)", "Status", "Status (n/a)"}

\* col.split('(')[1].split(')')[0], then pd.to_datetime(..., format='%d-%b-%y');
\* "Status" has no '(' (IndexError), "Status (n/a)" encloses no date (ValueError).
ParseStatus(col) ==
    CASE col = "Status (01-Jan-24)" -> ParseDBY("01-Jan-24")
      [] col = "Status (02-Jan-24)" -> ParseDBY("02-Jan-24")
      [] OTHER -> NoDate

\* date.strftime('%Y-%m-%d'): the date's own ISO name.
StrftimeISO(date) ==
    CASE date = "2024-01-01" -> "2024-01-01"
      [] date = "2024-01-02" -> "2024-01-02"

\* date.strftime('%d-%b-%y')
StrftimeDBY(date) ==
    CASE date = "2024-01-01" -> "01-Jan-24"
      [] date = "2024-01-02" -> "02-Jan-24"

\* pd.to_datetime(date) with no format: the general parser.
ParseAny(col) ==
    CASE col \in {"2024-01-01", "2024-01-02"} -> col
      [] ParseDMY(col) # NoDate -> ParseDMY(col)
      [] ParseDBY(col) # NoDate -> ParseDBY(col)
      [] OTHER -> NoDate

-----------------------------------------------------------------------------
(* standardize_column_names *)

StandardizeLabel(col) ==
    IF IsStr(col)
    THEN IF ContainsCode(col) THEN "Employee Code"
         ELSE IF ContainsName(col) THEN "Employee Name"
         ELSE IF ParseDMY(col) # NoDate THEN StrftimeStatus(ParseDMY(col))
         ELSE IF ParseDBY(col) # NoDate THEN StrftimeStatus(ParseDBY(col))
         ELSE col
    ELSE IF col = TimestampHeader THEN StrftimeStatus("2024-01-01")
    ELSE col

standardize_column_names(columns) ==
    [i \in DOMAIN columns |-> StandardizeLabel(columns[i])]

-----------------------------------------------------------------------------
(* process_dataframe *)

EmptyFrame == [index |-> <<>>, columns |-> <<>>, data |-> <<>>]

Raised(exc) == [exc |-> exc, df |-> EmptyFrame]

Returned(frame) == [exc |-> "", df |-> frame]

\* df.columns.values[0] = 'Employee Code'; df.columns.values[1] = 'Employee Name'
ForceFirstTwo(columns) ==
    [i \in DOMAIN columns |->
        IF i = 1 THEN "Employee Code" ELSE IF i = 2 THEN "Employee Name" ELSE columns[i]]

SetIndexKeepingColumn(frame) ==
    LET k == CHOOSE i \in DOMAIN frame.columns : frame.columns[i] = "Employee Code"
    IN  [index   |-> [r \in DOMAIN frame.data |-> frame.data[r][k]],
         columns |-> frame.columns,
         data    |-> frame.data]

\* df.set_index('Employee Code', inplace=True): the column becomes the index and
\* leaves the columns; the former index is dropped; no check of uniqueness.
SetIndex(frame) ==
    LET k == CHOOSE i \in DOMAIN frame.columns : frame.columns[i] = "Employee Code"
        Drop(s) == [j \in 1..(Len(s) - 1) |-> IF j < k THEN s[j] ELSE s[j + 1]]
    IN  [index   |-> [r \in DOMAIN frame.data |-> frame.data[r][k]],
         columns |-> Drop(frame.columns),
         data    |-> [r \in DOMAIN frame.data |-> Drop(frame.data[r])]]

\* The loop over date_columns: df.rename(columns={col: new_col_name}) when the
\* enclosed date parses, the label kept (with a warning) when it does not.
RenameDateLabel(col) ==
    IF StartsWithStatus(col) /\ ParseStatus(col) # NoDate
    THEN StrftimeISO(ParseStatus(col))
    ELSE col

RenameDateColumns(columns) ==
    [i \in DOMAIN columns |-> RenameDateLabel(columns[i])]

\* astype(str) of one cell: NaN becomes the text 'nan'.
AsTypeStr(cell) == IF cell = NaN THEN "nan" ELSE cell

\* for col in df.columns: if col != name_col: df[col] = df[col].astype(str)
StringifyCells(frame) ==
    [frame EXCEPT !.data =
        [r \in DOMAIN frame.data |->
            [j \in DOMAIN frame.columns |->
                IF frame.columns[j] # "Employee Name"
                THEN AsTypeStr(frame.data[r][j])
                ELSE frame.data[r][j]]]]

process_dataframe(frame) ==
    LET cols1 == standardize_column_names(frame.columns) IN
    IF Len(cols1) < 2 THEN Raised("IndexError")
    ELSE
    LET cols2 == ForceFirstTwo(cols1) IN
    IF Count("Employee Code", cols2) > 1 THEN Raised("ValueError")
    ELSE
    LET indexed == SetIndex([frame EXCEPT !.columns = cols2]) IN
    IF \E i \in DOMAIN indexed.columns : ~IsStr(indexed.columns[i])
    THEN Raised("AttributeError")
    ELSE Returned(StringifyCells(
            [indexed EXCEPT !.columns = RenameDateColumns(indexed.columns)]))

-----------------------------------------------------------------------------
(* compare_attendance *)

\* frame.at[key, col]: the cell when the row label and the column label are each
\* unique in the frame, a Series/DataFrame otherwise.
At(frame, key, col) ==
    IF Count(key, frame.index) = 1 /\ Count(col, frame.columns) = 1
    THEN LET r == CHOOSE i \in DOMAIN frame.index : frame.index[i] = key
             j == CHOOSE i \in DOMAIN frame.columns : frame.columns[i] = col
         IN  frame.data[r][j]
    ELSE NonScalar

\* value == 'nan' or pd.isna(value)
IsEmpty(value) == value = "nan" \/ value = NaN

DisplayRaw(value) == value

\* value if value != 'nan' else ''
Display(value) == IF value # "nan" THEN value ELSE ""

\* The try/except around pd.to_datetime(date).strftime('%d-%b-%y').
DateStr(date) == IF ParseAny(date) # NoDate THEN StrftimeDBY(ParseAny(date)) ELSE date

\* backend_data.at[emp_id, date] if date in backend_data.columns else 'N/A'
QandleValue(backend, emp_id, date) ==
    IF date \in Range(backend.columns) THEN At(backend, emp_id, date) ELSE "N/A"

MismatchIgnoringEmpty(uploaded_value, qandle_value) ==
    IF IsEmpty(uploaded_value) \/ IsEmpty(qandle_value) THEN "No"
    ELSE IF uploaded_value # qandle_value THEN "Yes"
    ELSE "No"

MismatchOnAnyEmpty(uploaded_value, qandle_value) ==
    IF IsEmpty(uploaded_value) \/ IsEmpty(qandle_value) THEN "Yes"
    ELSE IF uploaded_value # qandle_value THEN "Yes"
    ELSE "No"

\* The if/elif/else that sets mismatch.
Mismatch(uploaded_value, qandle_value) ==
    IF IsEmpty(uploaded_value) /\ IsEmpty(qandle_value) THEN "No"
    ELSE IF uploaded_value # qandle_value THEN "Yes"
    ELSE "No"

\* The displayed pair: both '' in the both-empty branch, Display of each after it.
Displayed(uploaded_value, qandle_value) ==
    IF IsEmpty(uploaded_value) /\ IsEmpty(qandle_value) THEN <<"", "">>
    ELSE <<Display(uploaded_value), Display(qandle_value)>>

\* One element of report_entries, or (exc # "") the exception that building it
\* raised.
Entry(id, name, date, manual, qandle, mismatch) ==
    [exc |-> "", EmpID |-> id, EmpName |-> name, Date |-> date,
     Manual |-> manual, Qandle |-> qandle, Mismatch |-> mismatch]

RaisedEntry(exc) ==
    [exc |-> exc, EmpID |-> "", EmpName |-> "", Date |-> "",
     Manual |-> "", Qandle |-> "", Mismatch |-> ""]

\* The body of the inner loop when emp_id is in backend_data.index.  A Series
\* in the if/elif conditions has no truth value: ValueError.
FoundEntry(backend, new, emp_id, date) ==
    LET uploaded_value == At(new, emp_id, date)
        qandle_value == QandleValue(backend, emp_id, date)
    IN  IF uploaded_value = NonScalar \/ qandle_value = NonScalar
        THEN RaisedEntry("ValueError")
        ELSE Entry(emp_id, At(new, emp_id, "Employee Name"), DateStr(date),
                   Displayed(uploaded_value, qandle_value)[1],
                   Displayed(uploaded_value, qandle_value)[2],
                   Mismatch(uploaded_value, qandle_value))

NotFoundSentinel == "Data Not Found in Qandle"

NotFoundEntryQuietOnEmpty(new, emp_id, date) ==
    LET uploaded_value == At(new, emp_id, date)
    IN  IF uploaded_value = NonScalar
        THEN RaisedEntry("ValueError")
        ELSE Entry(emp_id,
                   IF "Employee Name" \in Range(new.columns)
                   THEN At(new, emp_id, "Employee Name") ELSE "N/A",
                   DateStr(date),
                   IF ~IsEmpty(uploaded_value) THEN uploaded_value ELSE "",
                   NotFoundSentinel,
                   IF IsEmpty(uploaded_value) THEN "No" ELSE "Yes")

\* The body of the inner loop when emp_id is not in backend_data.index.
NotFoundEntry(new, emp_id, date) ==
    LET uploaded_value == At(new, emp_id, date)
    IN  IF uploaded_value = NonScalar
        THEN RaisedEntry("ValueError")
        ELSE Entry(emp_id,
                   IF "Employee Name" \in Range(new.columns)
                   THEN At(new, emp_id, "Employee Name") ELSE "N/A",
                   DateStr(date),
                   IF ~IsEmpty(uploaded_value) THEN uploaded_value ELSE "",
                   NotFoundSentinel, "Yes")

ColumnsWithName(new) == new.columns

\* for date in new_attendance.columns: if date == 'Employee Name': continue
ComparedColumns(new) == SelectSeq(new.columns, LAMBDA c : c # "Employee Name")

ScannedIdsOfBoth(backend, new) == new.index \o backend.index

\* for emp_id in new_attendance.index
ScannedIds(backend, new) == new.index

\* The entries appended for one emp_id, in column order.  In the found branch
\* new_attendance.at[emp_id, 'Employee Name'] is read first: KeyError when the
\* frame has no such column.
RowEntries(backend, new, emp_id) ==
    LET dates == ComparedColumns(new)
    IN  IF emp_id \in Range(backend.index)
        THEN IF "Employee Name" \notin Range(new.columns)
             THEN <<RaisedEntry("KeyError")>>
             ELSE [j \in DOMAIN dates |-> FoundEntry(backend, new, emp_id, dates[j])]
        ELSE [j \in DOMAIN dates |-> NotFoundEntry(new, emp_id, dates[j])]

RECURSIVE AllEntries(_, _, _)
AllEntries(backend, new, ids) ==
    IF ids = <<>> THEN <<>>
    ELSE RowEntries(backend, new, Head(ids)) \o AllEntries(backend, new, Tail(ids))

NoReport == [exc |-> "not run", entries |-> <<>>]

\* The list returned, or the exception that leaves the function: the first entry
\* that cannot be built raises, and the entries appended so far are lost with it.
compare_attendance(backend, new) ==
    LET entries == AllEntries(backend, new, ScannedIds(backend, new))
        bad == {i \in DOMAIN entries : entries[i].exc # ""}
    IN  IF bad # {}
        THEN [exc |-> entries[CHOOSE i \in bad : \A k \in bad : i <= k].exc,
              entries |-> <<>>]
        ELSE [exc |-> "", entries |-> entries]

-----------------------------------------------------------------------------
(* The parts of the state a specification leaves untouched. *)

NormIdle ==
    /\ df = EmptyFrame
    /\ processed = Raised("")
    /\ reprocessed = Raised("")

RunIdle ==
    /\ backend_data = Raised("")
    /\ new_attendance = Raised("")
    /\ report = NoReport

BatchIdle ==
    /\ mode = ""
    /\ files = <<>>
    /\ cursor = 1
    /\ results = <<>>
    /\ used_ids = <<>>
    /\ disk = <<>>
    /\ jobs = <<>>

\* The scheduler thread is started when the module is loaded and waits with
\* nothing registered.
SchedIdle ==
    /\ removed = {}
    /\ due = {}
    /\ last = <<>>
    /\ alive = TRUE

-----------------------------------------------------------------------------
(* Normalisation applied to bounded raw tables, and applied again to its   *)
(* own result.                                                             *)

MaxHeaders == 4

RawHeaderLabels ==
    {"Emp Code", "Emp Name", "Manager Name", "01-01-2024", "01-Jan-24",
     "Remarks", "Status (n/a)", TimestampHeader, IntHeader}

RawCells == {NaN, "P"}

\* The headers a loader yields are pairwise distinct (read_csv and read_excel
\* rename a repeated header).
RawHeaders ==
    UNION {{h \in [1..n -> RawHeaderLabels] : NoDuplicates(h)} : n \in 0..MaxHeaders}

RangeIndex(n) == [i \in 1..n |-> ToString(i - 1)]

NormInit ==
    /\ pc = "raw"
    /\ \E h \in RawHeaders, c \in RawCells :
         df = [index |-> RangeIndex(1), columns |-> h,
               data |-> <<[j \in DOMAIN h |-> IF j = 1 THEN "E1" ELSE c]>>]
    /\ processed = Raised("")
    /\ reprocessed = Raised("")
    /\ RunIdle
    /\ BatchIdle
    /\ SchedIdle

Normalize ==
    /\ pc = "raw"
    /\ processed' = process_dataframe(df)
    /\ pc' = "processed"
    /\ UNCHANGED <<df, reprocessed, runVars, batchVars, schedVars>>

Renormalize ==
    /\ pc = "processed"
    /\ processed.exc = ""
    /\ reprocessed' = process_dataframe(processed.df)
    /\ pc' = "reprocessed"
    /\ UNCHANGED <<df, processed, runVars, batchVars, schedVars>>

NormNext == Normalize \/ Renormalize

SpecNorm == NormInit /\ [][NormNext]_vars

-----------------------------------------------------------------------------
(* One run of process_attendance_file over bounded files: the backend      *)
(* export and the upload are loaded and normalised, then compared.         *)

MaxRows == 2

\* E1 is held by both files, E2 by the upload alone, E3 by the backend alone.
BackendCodes == {"E1", "E3"}

UploadCodes == {"E1", "E2"}

EmployeeNames == {"Ann"}

BackendHeaders ==
    {<<"Emp Code", "Emp Name">>,
     <<"Emp Code", "Emp Name", "01-01-2024">>}

BackendCells == {NaN, "P", "A"}

UploadHeaders ==
    {<<"Emp Code", "Emp Name", "01-Jan-24">>,
     <<"Emp Code", "Emp Name", "01-Jan-24", "Remarks">>,
     <<"Emp Code", "Emp Name", "Remarks", "01-Jan-24">>}

UploadCells == {NaN, "P"}

\* The rows a sheet with headers h can hold.
RawRows(h, codes, cells) ==
    {<<code, name>> \o rest :
        code \in codes, name \in EmployeeNames,
        rest \in [1..(Len(h) - 2) -> cells]}

\* The tables the loader can yield.
RawTables(headers, codes, cells) ==
    UNION {UNION {{[index |-> RangeIndex(n), columns |-> h, data |-> d] :
                      d \in [1..n -> RawRows(h, codes, cells)]} :
                  n \in 0..MaxRows} :
           h \in headers}

CompareInit ==
    /\ pc = "start"
    /\ NormIdle
    /\ RunIdle
    /\ BatchIdle
    /\ SchedIdle

\* backend_data = load_backend_data(file_path=backend_file)
LoadBackendData ==
    /\ pc = "start"
    /\ \E raw \in RawTables(BackendHeaders, BackendCodes, BackendCells) :
         backend_data' = process_dataframe(raw)
    /\ pc' = IF backend_data'.exc = "" THEN "backend_loaded" ELSE "error"
    /\ UNCHANGED <<normVars, batchVars, new_attendance, report, schedVars>>

\* new_attendance = load_new_attendance(file_path=saved_file_path)
LoadNewAttendance ==
    /\ pc = "backend_loaded"
    /\ \E raw \in RawTables(UploadHeaders, UploadCodes, UploadCells) :
         new_attendance' = process_dataframe(raw)
    /\ pc' = IF new_attendance'.exc = "" THEN "new_loaded" ELSE "error"
    /\ UNCHANGED <<normVars, batchVars, backend_data, report, schedVars>>

\* report_entries = compare_attendance(backend_data, new_attendance)
CompareAttendance ==
    /\ pc = "new_loaded"
    /\ report' = compare_attendance(backend_data.df, new_attendance.df)
    /\ pc' = IF report'.exc = "" THEN "compared" ELSE "error"
    /\ UNCHANGED <<normVars, batchVars, backend_data, new_attendance, schedVars>>

CompareNext == LoadBackendData \/ LoadNewAttendance \/ CompareAttendance

Spec == CompareInit /\ [][CompareNext]_vars

\* The same file as backend export and as upload.
LoadSameFile ==
    /\ pc = "start"
    /\ \E raw \in RawTables(UploadHeaders, UploadCodes, UploadCells) :
         /\ backend_data' = process_dataframe(raw)
         /\ new_attendance' = process_dataframe(raw)
    /\ pc' = IF new_attendance'.exc = "" THEN "new_loaded" ELSE "error"
    /\ UNCHANGED <<normVars, batchVars, report, schedVars>>

SelfNext == LoadSameFile \/ CompareAttendance

SpecSelf == CompareInit /\ [][SelfNext]_vars

-----------------------------------------------------------------------------
(* Properties of compare_attendance *)

A == backend_data.df

B == new_attendance.df

Returned_ == report.exc = ""

\* The positions of the submission's non-Display columns, in column order.
StatusPositions ==
    SelectSeq([p \in DOMAIN B.columns |-> p], LAMBDA p : B.columns[p] # "Employee Name")

\* The record for submission row i and the j-th non-Display column, when the
\* records are laid out row by row.
RecordAt(i, j) == report.entries[(i - 1) * Len(StatusPositions) + j]

RowMajor == Len(report.entries) = Len(B.index) * Len(StatusPositions)

\* The reference cell for key k and column label d, "N/A" when the reference has
\* no such column.
ReferenceCell(k, d) ==
    IF d \in Range(A.columns)
    THEN A.data[CHOOSE r \in DOMAIN A.index : A.index[r] = k]
               [CHOOSE c \in DOMAIN A.columns : A.columns[c] = d]
    ELSE "N/A"

Empty(v) == v \in {"nan", NaN}

\* A predicate over every (row, non-Display column) of the submission whose key
\* is (found = TRUE) or is not (found = FALSE) in the reference.
ForEachCell(found, P(_, _, _)) ==
    pc = "compared" /\ RowMajor =>
        \A i \in DOMAIN B.index : \A j \in DOMAIN StatusPositions :
            (B.index[i] \in Range(A.index)) = found =>
                P(RecordAt(i, j), B.data[i][StatusPositions[j]],
                  ReferenceCell(B.index[i], B.columns[StatusPositions[j]]))

\* C1: for a key present in the reference and every non-Display column, the
\* record's mismatch is No exactly when both cells are empty or the two cells
\* are equal strings, and Yes otherwise; the reference cell is "N/A" when the
\* reference lacks the column.
C1_MismatchRule ==
    /\ pc = "compared" => RowMajor
    /\ ForEachCell(TRUE, LAMBDA rec, s, r :
          /\ rec.Mismatch \in {"Yes", "No"}
          /\ rec.Mismatch = "No" <=> ((Empty(s) /\ Empty(r)) \/ s = r))

C1_Witness ==
    /\ pc = "compared"
    /\ \E i \in DOMAIN report.entries :
         /\ report.entries[i].Manual = ""
         /\ report.entries[i].Qandle = "A"
         /\ report.entries[i].Mismatch = "Yes"
    /\ \E i \in DOMAIN report.entries :
         /\ report.entries[i].Manual = "P"
         /\ report.entries[i].Qandle = "N/A"
         /\ report.entries[i].Mismatch = "Yes"

\* The submission's columns whose label is a calendar date.
DateColumns == SelectSeq(B.columns, LAMBDA c : ParseAny(c) # NoDate)

Compared == report.exc # "not run"

\* C2 as stated: the number of records is rows x date columns of the submission.
C2_CountByDateColumns ==
    pc = "compared" => Len(report.entries) = Len(B.index) * Len(DateColumns)

\* C2, amended: when both tables have unique keys compare_attendance returns,
\* and whenever it returns it has emitted one record per submission row per
\* non-Display column of the submission (date-keyed or inert), whatever the
\* reference holds.
C2_CountByNonDisplayColumns ==
    Compared =>
        /\ Returned_ => Len(report.entries) =
               Len(B.index) * (Len(B.columns) - Count("Employee Name", B.columns))
        /\ NoDuplicates(A.index) /\ NoDuplicates(B.index) => Returned_

C2_Witness ==
    /\ pc = "compared"
    /\ Len(B.index) = 2
    /\ "Remarks" \in Range(B.columns)
    /\ Len(report.entries) = 4
    /\ Len(A.index) = 1

\* C3 as stated: a key absent from the reference yields records with mismatch
\* Yes and the reference value "Employee not found in backend".
C3_AbsentKeySentinelAsStated ==
    ForEachCell(FALSE, LAMBDA rec, s, r :
        rec.Mismatch = "Yes" /\ rec.Qandle = "Employee not found in backend")

\* C3, amended: a key absent from the reference yields records with mismatch
\* Yes and the reference value "Data Not Found in Qandle".
C3_AbsentKeySentinel ==
    ForEachCell(FALSE, LAMBDA rec, s, r :
        rec.Mismatch = "Yes" /\ rec.Qandle = "Data Not Found in Qandle")

C3_Witness ==
    /\ pc = "compared"
    /\ \E i \in DOMAIN B.index :
         /\ B.index[i] \notin Range(A.index)
         /\ \E j \in DOMAIN StatusPositions :
              /\ B.data[i][StatusPositions[j]] = "nan"
              /\ RecordAt(i, j).EmpID = B.index[i]

\* The rows of frame a at the positions keep, in order.
RowsAt(a, keep) ==
    [index   |-> [q \in DOMAIN keep |-> a.index[keep[q]]],
     columns |-> a.columns,
     data    |-> [q \in DOMAIN keep |-> a.data[keep[q]]]]

\* The reference without the rows whose key the submission does not hold.
WithoutReferenceOnlyRows ==
    RowsAt(A, SelectSeq([p \in DOMAIN A.index |-> p],
                        LAMBDA p : A.index[p] \in Range(B.index)))

\* The reference with one more row, under a key the submission does not hold.
WithOneMoreReferenceRow ==
    [A EXCEPT !.index = Append(@, "E9"),
              !.data = Append(@, [c \in DOMAIN A.columns |-> "P"])]

\* C4: the records come in the submission's row order and, within a row, in its
\* column order with the Display column skipped; every record's employee id is
\* a key of the submission; removing or adding reference-only rows leaves the
\* result as it is.
C4_SubmissionOrderAndKeys ==
    Compared =>
        /\ Returned_ =>
             /\ RowMajor
             /\ \A i \in DOMAIN B.index : \A j \in DOMAIN StatusPositions :
                  /\ RecordAt(i, j).EmpID = B.index[i]
                  /\ RecordAt(i, j).Date = DateStr(B.columns[StatusPositions[j]])
        /\ \A n \in DOMAIN report.entries :
             report.entries[n].EmpID \in Range(B.index)
        /\ compare_attendance(WithoutReferenceOnlyRows, B) = report
        /\ compare_attendance(WithOneMoreReferenceRow, B) = report

C4_Witness ==
    /\ pc = "compared"
    /\ B.index = <<"E2", "E1">>
    /\ A.index = <<"E3", "E1">>
    /\ B.columns = <<"Employee Name", "Remarks", "2024-01-01">>
    /\ Len(report.entries) = 4
    /\ report.entries[1].EmpID = "E2" /\ report.entries[1].Date = "Remarks"
    /\ report.entries[4].EmpID = "E1" /\ report.entries[4].Date = "01-Jan-24"

\* C5: an empty submission or reference value is displayed as "" and never as
\* "nan", for found and not-found keys and for either mismatch flag; when both
\* are empty for a (key, date) held by both tables, mismatch is No and both
\* displayed values are "".
C5_EmptyDisplayedAsEmptyString ==
    /\ \A n \in DOMAIN report.entries :
         /\ ~Empty(report.entries[n].Manual)
         /\ ~Empty(report.entries[n].Qandle)
    /\ ForEachCell(TRUE, LAMBDA rec, s, r :
          /\ Empty(s) => rec.Manual = ""
          /\ Empty(r) => rec.Qandle = ""
          /\ Empty(s) /\ Empty(r) => rec.Mismatch = "No")
    /\ ForEachCell(FALSE, LAMBDA rec, s, r : Empty(s) => rec.Manual = "")

C5_Witness ==
    /\ pc = "compared"
    /\ \E i \in DOMAIN B.index : \E j \in DOMAIN StatusPositions :
         /\ B.index[i] \in Range(A.index)
         /\ B.data[i][StatusPositions[j]] = "nan"
         /\ ReferenceCell(B.index[i], B.columns[StatusPositions[j]]) = "nan"
         /\ RecordAt(i, j).Manual = "" /\ RecordAt(i, j).Qandle = ""
         /\ RecordAt(i, j).Mismatch = "No"
    /\ \E i \in DOMAIN B.index : \E j \in DOMAIN StatusPositions :
         /\ B.index[i] \notin Range(A.index)
         /\ B.data[i][StatusPositions[j]] = "nan"
         /\ RecordAt(i, j).Manual = "" /\ RecordAt(i, j).Mismatch = "Yes"

\* C6: a table with unique keys compared with itself is compared to the end and
\* yields no record with mismatch Yes, cells empty on both sides and inert
\* columns included.
C6_SelfCompareNoMismatch ==
    Compared /\ A = B =>
        /\ \A n \in DOMAIN report.entries : report.entries[n].Mismatch = "No"
        /\ NoDuplicates(B.index) => Returned_ /\ RowMajor

C6_Witness ==
    /\ pc = "compared"
    /\ A = B
    /\ Len(B.index) = 2
    /\ \E n \in DOMAIN report.entries :
         /\ report.entries[n].Date = "Remarks"
         /\ report.entries[n].Manual = "" /\ report.entries[n].Qandle = ""
    /\ \E n \in DOMAIN report.entries :
         /\ report.entries[n].Date = "01-Jan-24"
         /\ report.entries[n].Manual = "P" /\ report.entries[n].Qandle = "P"

\* C7: no table with a duplicated identity key reaches compare_attendance:
\* whenever it has been called, the keys of both tables are pairwise distinct.
C7_NoDuplicateKeyReachesCompare ==
    Compared => NoDuplicates(A.index) /\ NoDuplicates(B.index)

-----------------------------------------------------------------------------
(* process_attendance_file and the two batch loops around it *)

MaxFiles == 2

NoPath == [dir |-> "", stem |-> "", id |-> 0, ext |-> ""]

\* generate_unique_id: uuid4, taken to be a value never generated before.
generate_unique_id == Len(used_ids) + 1

\* save_uploaded_file: os.path.join('uploads', f"{unique_id}{file_extension}")
SavedPath(file, id) == [dir |-> "uploads", stem |-> "", id |-> id, ext |-> file.ext]

ReportPathWithoutId(file, id, output_folder) ==
    [dir |-> output_folder, stem |-> file.stem, id |-> 0, ext |-> ".xlsx"]

\* f"{basename}_discrepancy_report_{unique_id}.xlsx" under output_folder
ReportPath(file, id, output_folder) ==
    [dir |-> output_folder, stem |-> file.stem, id |-> id, ext |-> ".xlsx"]

\* What one run does to the world and what it returns.
Outcome(report_path, message, saved, written, scheduled) ==
    [report_path |-> report_path, message |-> message,
     saved |-> saved, written |-> written, scheduled |-> scheduled]

\* file_extension in ['.xls', '.xlsx', '.xlsm', '.csv']
SupportedExtension(ext) == ext \in {".xls", ".xlsx", ".xlsm", ".csv"}

\* process_attendance_file.  file.fault says what goes wrong in this run:
\*   "copy"       shutil.copy raises in save_uploaded_file
\*   "no_backend" no backend/Qandle.* file exists
\*   "backend"    load_backend_data raises (load_file or process_dataframe)
\*   "load"       load_new_attendance raises while reading the upload
\*   "normalise"  process_dataframe raises on the upload (IndexError, ValueError, ...)
\*   "compare"    compare_attendance raises (ValueError)
\*   "empty"      compare_attendance returns no entry: generate_report gives None
\* Every exception is caught by the except clause and turned into a message.
process_attendance_file(file, output_folder) ==
    LET id == generate_unique_id
        saved == SavedPath(file, id)
        report_path == ReportPath(file, id, output_folder)
    IN  IF file.fault = "copy"
        THEN Outcome(NoPath, "An error occurred", <<>>, <<>>, <<>>)
        ELSE IF file.fault = "no_backend"
        THEN Outcome(NoPath, "Qandle file not found", <<saved>>, <<>>, <<saved>>)
        ELSE IF file.fault = "backend"
        THEN Outcome(NoPath, "An error occurred", <<saved>>, <<>>, <<saved>>)
        ELSE IF ~SupportedExtension(file.ext)
        THEN Outcome(NoPath, "Unsupported file format", <<saved>>, <<>>, <<saved>>)
        ELSE IF file.fault \in {"load", "normalise", "compare"}
        THEN Outcome(NoPath, "An error occurred", <<saved>>, <<>>, <<saved>>)
        ELSE IF file.fault = "empty"
        THEN Outcome(NoPath, "No discrepancies found.", <<saved>>, <<>>, <<saved>>)
        ELSE Outcome(report_path, "Processing complete", <<saved>>, <<report_path>>,
                     <<saved, report_path>>)

\* filename.lower().endswith(('.xlsx', '.xls', '.csv'))
ListedAsAttendance(file) == file.ext \in {".xlsx", ".xls", ".csv"}

StopAtFailure(outcome) ==
    IF outcome.report_path = NoPath THEN Len(files) + 1 ELSE cursor + 1

\* The for loop goes on to the next file whatever the run returned.
CursorAfter(outcome) == cursor + 1

FileStems == {"jan", "feb"}

FileExtensions == {".csv", ".txt"}

Faults == {"none", "copy", "no_backend", "backend", "load", "normalise", "compare", "empty"}

Batches ==
    UNION {[1..n -> [stem : FileStems, ext : FileExtensions, fault : Faults]] :
           n \in 0..MaxFiles}

BatchInit ==
    /\ pc = "batch"
    /\ NormIdle
    /\ RunIdle
    /\ mode \in {"web", "folder"}
    /\ files \in Batches
    /\ cursor = 1
    /\ results = <<>>
    /\ used_ids = <<>>
    /\ disk = <<>>
    /\ jobs = <<>>
    /\ SchedIdle

\* The effect of process_attendance_file on the batch's state.
RunFile(output_folder) ==
    LET outcome == process_attendance_file(files[cursor], output_folder)
    IN  /\ used_ids' = Append(used_ids, generate_unique_id)
        /\ disk' = disk \o outcome.saved \o outcome.written
        /\ jobs' = jobs \o outcome.scheduled
        /\ results' = Append(results, [report_path |-> outcome.report_path,
                                       message |-> outcome.message])
        /\ cursor' = CursorAfter(outcome)

\* process_and_return: if not files: return None, "No files uploaded..."
NoFilesUploaded ==
    /\ pc = "batch" /\ mode = "web" /\ files = <<>>
    /\ pc' = "done"
    /\ results' = <<[report_path |-> NoPath, message |-> "No files uploaded"]>>
    /\ UNCHANGED <<normVars, runVars, mode, files, cursor, used_ids, disk, jobs, schedVars>>

\* process_and_return: one turn of for file in files
ProcessUploaded ==
    /\ pc = "batch" /\ mode = "web" /\ cursor <= Len(files)
    /\ RunFile("reports")
    /\ UNCHANGED <<pc, normVars, runVars, mode, files, schedVars>>

\* main, --folder: one turn of for filename in os.listdir(input_folder), the
\* filename passing the extension test
ProcessListed ==
    /\ pc = "batch" /\ mode = "folder" /\ cursor <= Len(files)
    /\ ListedAsAttendance(files[cursor])
    /\ RunFile("input_folder")
    /\ UNCHANGED <<pc, normVars, runVars, mode, files, schedVars>>

\* main, --folder: a filename failing the extension test is passed over
SkipListed ==
    /\ pc = "batch" /\ mode = "folder" /\ cursor <= Len(files)
    /\ ~ListedAsAttendance(files[cursor])
    /\ cursor' = cursor + 1
    /\ UNCHANGED <<pc, normVars, runVars, mode, files, results, used_ids, disk, jobs, schedVars>>

\* The loop is over: process_and_return joins the results, main returns.
BatchDone ==
    /\ pc = "batch" /\ cursor > Len(files)
    /\ mode = "web" => files # <<>>
    /\ pc' = "done"
    /\ UNCHANGED <<normVars, runVars, batchVars, schedVars>>

BatchNext == NoFilesUploaded \/ ProcessUploaded \/ ProcessListed \/ SkipListed \/ BatchDone

SpecBatch == BatchInit /\ [][BatchNext]_vars

-----------------------------------------------------------------------------
(* Properties of the batch loops *)

InBatch(file) == mode = "web" \/ ListedAsAttendance(file)

\* The files of the batch the loop has gone past.
Handled == SelectSeq(SubSeq(files, 1, cursor - 1), InBatch)

\* C8: every file of a batch is run in turn and gets its own result, whatever
\* happened to the files before it: a run yields a report exactly when nothing
\* fails in that run, each written report carries its own file's name, and no
\* two runs of the batch write to the same path.
C8_BatchIsolation ==
    pc \in {"batch", "done"} /\ files # <<>> =>
        /\ Len(results) = Len(Handled)
        /\ pc = "done" => Len(results) = Len(SelectSeq(files, InBatch))
        /\ \A i \in DOMAIN results :
             /\ results[i].message # ""
             /\ results[i].report_path # NoPath <=>
                    (Handled[i].fault = "none" /\ SupportedExtension(Handled[i].ext))
             /\ results[i].report_path # NoPath =>
                    /\ results[i].report_path.stem = Handled[i].stem
                    /\ results[i].report_path \in Range(disk)
        /\ NoDuplicates(disk)

C8_Witness ==
    /\ pc = "done"
    /\ Len(files) = 2
    /\ files[1].stem = files[2].stem
    /\ files[1].fault = "normalise" /\ files[1].ext = ".csv"
    /\ Len(results) = 2
    /\ results[1].report_path = NoPath /\ results[1].message = "An error occurred"
    /\ results[2].report_path # NoPath

-----------------------------------------------------------------------------
(* Properties of the normalisation *)

Normalized == pc \in {"processed", "reprocessed"} /\ processed.exc = ""

\* The normalised table read as a raw table again: its identity is the first
\* column, under the index's name.
WithIdentityColumn(frame) ==
    [index   |-> RangeIndex(Len(frame.index)),
     columns |-> <<"Employee Code">> \o frame.columns,
     data    |-> [r \in DOMAIN frame.data |-> <<frame.index[r]>> \o frame.data[r]]]

\* C9 as stated: process_dataframe applied to its own result yields the same
\* column labels.
C9_RenormalizeKeepsLabels ==
    pc = "reprocessed" =>
        /\ reprocessed.exc = ""
        /\ reprocessed.df.columns = processed.df.columns

\* C9, amended: the labels of a normalised table are fixed by the label
\* rewriting (standardize_column_names, then the date renaming), and
\* normalising the table whose header row is the canonical one (Employee Code,
\* then the normalised columns) gives the same table back.
C9_CanonicalHeadersKept ==
    Normalized =>
        /\ RenameDateColumns(standardize_column_names(processed.df.columns))
               = processed.df.columns
        /\ process_dataframe(WithIdentityColumn(processed.df)) = processed

C9_Witness ==
    /\ pc = "reprocessed"
    /\ df.columns = <<"Emp Code", "Emp Name", "01-01-2024", "Status (n/a)">>
    /\ processed.df.columns = <<"Employee Name", "2024-01-01", "Status (n/a)">>
    /\ reprocessed.exc = ""
    /\ reprocessed.df.columns = <<"Employee Name", "Status (n/a)">>

\* C10: a normalised table has one identity (the index, no 'Employee Code' left
\* among the columns), exactly one 'Employee Name' column, and pairwise distinct
\* date keys.
C10_OneIdentityOneDisplayDistinctDates ==
    Normalized =>
        /\ Count("Employee Code", processed.df.columns) = 0
        /\ Count("Employee Name", processed.df.columns) = 1
        /\ NoDuplicates(SelectSeq(processed.df.columns, LAMBDA c : ParseAny(c) # NoDate))

-----------------------------------------------------------------------------
(* The scheduler: schedule_file_deletion registers delete_file with         *)
(* schedule.every(delay_hours).hours, and the daemon thread run_schedule     *)
(* calls schedule.run_pending() once a minute.  Time is abstracted to "the   *)
(* interval of job j has elapsed"; a job that has run waits for its next    *)
(* interval.  jobs[j] is the path the j-th registered job removes.           *)

MaxUploads == 1

\* The file is there: it was written and os.remove has not taken it away.
OnDisk(path) == path \in Range(disk) /\ path \notin removed

\* The latest firing of job j: the level of the line it logged, "none" before
\* its first firing, "raised" if an exception left delete_file.
LastOf(j) == IF j \in DOMAIN last THEN last[j] ELSE "none"

delete_file_unguarded(file_path, remove_fails) ==
    IF ~OnDisk(file_path) THEN "raised"
    ELSE IF remove_fails THEN "error"
    ELSE "info"

\* delete_file: os.remove(file_path), logging.info on success,
\* except FileNotFoundError -> logging.warning, except Exception ->
\* logging.error.  remove_fails: os.remove raises something other than
\* FileNotFoundError (PermissionError, ...) and the file stays.
delete_file(file_path, remove_fails) ==
    IF ~OnDisk(file_path) THEN "warning"
    ELSE IF remove_fails THEN "error"
    ELSE "info"

\* An hour has passed since job j was registered or last run.
IntervalElapses(j) ==
    /\ j \in DOMAIN jobs
    /\ j \notin due
    /\ due' = due \cup {j}
    /\ UNCHANGED <<pc, normVars, runVars, batchVars, removed, last, alive>>

\* run_schedule, one job of schedule.run_pending(): the due job j runs
\* delete_file and is scheduled again one interval later; it stays registered
\* (delete_file returns None, never schedule.CancelJob).  An exception leaving
\* delete_file would leave run_pending and end the thread.
RunPending(j) ==
    /\ alive
    /\ j \in DOMAIN jobs
    /\ j \in due
    /\ \E remove_fails \in BOOLEAN :
         LET outcome == delete_file(jobs[j], remove_fails)
         IN  /\ removed' = IF outcome = "info" THEN removed \cup {jobs[j]} ELSE removed
             /\ last' = [k \in DOMAIN jobs |-> IF k = j THEN outcome ELSE LastOf(k)]
             /\ alive' = (outcome # "raised")
    /\ due' = due \ {j}
    /\ UNCHANGED <<pc, normVars, runVars, batchVars>>

\* A run registers at most two deletions: its saved upload and its report.
JobSlots == 1..(2 * MaxUploads)

TimePasses == \E j \in JobSlots : IntervalElapses(j)

RunSchedule == \E j \in JobSlots : RunPending(j)

\* The uploads of the web interface while the scheduler thread runs: a file
\* that goes through, one whose copy fails, one with no backend export to
\* compare with, one of an unsupported format.
CleanupFiles ==
    {[stem |-> "jan", ext |-> ".csv", fault |-> "none"],
     [stem |-> "jan", ext |-> ".csv", fault |-> "copy"],
     [stem |-> "jan", ext |-> ".csv", fault |-> "no_backend"],
     [stem |-> "jan", ext |-> ".txt", fault |-> "none"]}

CleanupInit ==
    /\ pc = "batch"
    /\ NormIdle
    /\ RunIdle
    /\ mode = "web"
    /\ files \in UNION {[1..n -> CleanupFiles] : n \in 1..MaxUploads}
    /\ cursor = 1
    /\ results = <<>>
    /\ used_ids = <<>>
    /\ disk = <<>>
    /\ jobs = <<>>
    /\ SchedIdle

CleanupNext == ProcessUploaded \/ BatchDone \/ TimePasses \/ RunSchedule

\* The thread keeps running (while True: run_pending(); sleep(60)) and time
\* passes: every due job is run, every job's interval elapses again.
CleanupFairness ==
    \A j \in JobSlots : WF_vars(IntervalElapses(j)) /\ WF_vars(RunPending(j))

SpecCleanup == CleanupInit /\ [][CleanupNext]_vars /\ CleanupFairness

-----------------------------------------------------------------------------
(* Properties of the scheduled deletions *)

Registered(j) == j \in DOMAIN jobs

Due(j) == j \in due

Removed(j) == Registered(j) /\ jobs[j] \in removed

Errored(j) == LastOf(j) = "error"

\* Job j has just been run: it was due and waits for its next interval.
Fired(j) == Registered(j) /\ j \in due /\ j \notin due'

\* Every saved upload and every written report is registered for deletion
\* by the run that wrote it, whatever the run returned.
AllWrittenRegistered == Range(disk) \subseteq Range(jobs)

\* A registered job stays registered, for the same path.
NeverCancelled ==
    \A j \in JobSlots : Registered(j) => Registered(j)' /\ jobs'[j] = jobs[j]

\* A firing on a path that is not on the disk logs a warning and changes
\* nothing else: the thread goes on, the other jobs are as they were.
MissingFileAbsorbed ==
    \A j \in JobSlots :
        Fired(j) /\ ~OnDisk(jobs[j]) =>
            /\ LastOf(j)' = "warning"
            /\ alive'
            /\ removed' = removed
            /\ due' = due \ {j}
            /\ \A k \in JobSlots \ {j} : LastOf(k)' = LastOf(k)

\* Every registered job becomes due again and again, and a due job is run.
RefiresEachInterval ==
    \A j \in JobSlots : (Registered(j) ~> Due(j)) /\ (Due(j) ~> ~Due(j))

SchedulerSafety ==
    /\ [](alive /\ AllWrittenRegistered)
    /\ [][NeverCancelled /\ MissingFileAbsorbed]_vars

\* C11, as stated: every path passed to schedule_file_deletion (the saved
\* upload of every run that saved one, every written report) is eventually
\* removed while the thread runs; the job is never cancelled and fires again
\* each interval; a firing on a missing file is a warning that stops neither
\* the loop nor the other deletions.
C11_EveryScheduledPathRemoved ==
    /\ SchedulerSafety
    /\ RefiresEachInterval
    /\ \A j \in JobSlots : Registered(j) ~> Removed(j)

\* C11, amended: the same, the removal being promised for a path on which
\* os.remove stops failing: a failure other than FileNotFoundError is logged as
\* an error, leaves the file where it is, and is repeated at every interval for
\* as long as it lasts.
C11_ScheduledPathRemovedUnlessRemoveFails ==
    /\ SchedulerSafety
    /\ RefiresEachInterval
    /\ \A j \in JobSlots : <>[]~Errored(j) => (Registered(j) ~> Removed(j))
    /\ [][\A j \in JobSlots : Fired(j) /\ Errored(j)' =>
                OnDisk(jobs[j])' /\ Registered(j)' /\ alive']_vars

\* The saved upload was removed, its job fired again on the missing file, and
\* the report registered after it was removed all the same.
C11_Witness ==
    /\ Len(jobs) >= 2
    /\ jobs[2].dir = "reports"
    /\ LastOf(1) = "warning"
    /\ LastOf(2) = "info"
    /\ {jobs[1], jobs[2]} \subseteq removed
    /\ alive

====
